---- MODULE Spec2Model ----
(***************************************************************************)
(* Model of timeline.py: the release-timeline generator.  main() loads a   *)
(* catalog of release milestones and runs generate_timeline twice, once    *)
(* hiding retired versions (index.html) and once including them            *)
(* (eol.html).  Strings are sequences of one-character strings; dates are  *)
(* records [year, month, day] compared as datetime.date compares them.     *)
(***************************************************************************)
EXTENDS Integers, Sequences, FiniteSets, TLC

VARIABLES data, today, pc, eol, versions, idx, max_eol, all_rows, files,
          status, row_in, row_out, row_pc

vars == <<data, today, pc, eol, versions, idx, max_eol, all_rows, files,
          status, row_in, row_out, row_pc>>

mainvars == <<data, today, pc, eol, versions, idx, max_eol, all_rows, files,
              status>>

rowvars == <<row_in, row_out, row_pc>>

(* ------------------------------ bounds --------------------------------- *)

\* Dates are day ordinals 1..MaxDate, two per month, starting 2024-11-01.
MaxDate == 8

\* Longest bar list handed to print_row when it is checked on its own.
MaxBars == 3

(* ------------------------------ dates ---------------------------------- *)

\* datetime.date values; ordinal n counts half-months from 2024-11-01, so
\* the range crosses a year boundary.
Date(n) ==
    [year  |-> 2024 + ((n - 1) \div 2 + 10) \div 12,
     month |-> (((n - 1) \div 2 + 10) % 12) + 1,
     day   |-> IF (n - 1) % 2 = 0 THEN 1 ELSE 15]

\* Python's None for max_eol (a date-shaped value no real date equals).
None == [year |-> 0, month |-> 0, day |-> 0]

\* datetime.date.__lt__ / __le__
DateLT(a, b) ==
    \/ a.year < b.year
    \/ a.year = b.year /\ a.month < b.month
    \/ a.year = b.year /\ a.month = b.month /\ a.day < b.day

DateLE(a, b) == a = b \/ DateLT(a, b)

\* builtin max(a, b): the first maximal argument
max(a, b) == IF DateLT(a, b) THEN b ELSE a

\* jsdate(dt): "year, month - 1, day"
jsdate(dt) == <<dt.year, dt.month - 1, dt.day>>

(* ----------------------------- versions -------------------------------- *)

V39  == <<"3", ".", "9">>
V310 == <<"3", ".", "1", "0">>
V311 == <<"3", ".", "1", "1">>

VersionStrings == {V39, V310, V311}

DigitChars == <<"0", "1", "2", "3", "4", "5", "6", "7", "8", "9">>

DigitVal(c) == (CHOOSE i \in 1..10 : DigitChars[i] = c) - 1

\* ord(c) for the characters of a version string
CharCode(c) == IF c = "." THEN 46 ELSE 48 + DigitVal(c)

\* str.split("."): the pieces between the separators
RECURSIVE split(_, _)
split(s, cur) ==
    IF s = <<>> THEN <<cur>>
    ELSE IF Head(s) = "." THEN <<cur>> \o split(Tail(s), <<>>)
    ELSE split(Tail(s), Append(cur, Head(s)))

\* int(x) of a decimal digit string
RECURSIVE int(_)
int(x) == IF x = <<>> THEN 0
          ELSE 10 * int(SubSeq(x, 1, Len(x) - 1)) + DigitVal(x[Len(x)])

\* a version_key that orders versions as plain strings
version_key_str(version) == [i \in 1..Len(version) |-> CharCode(version[i])]

\* version_key(version): tuple(int(x) for x in version.split("."))
version_key(version) ==
    LET parts == split(version, <<>>)
    IN [i \in 1..Len(parts) |-> int(parts[i])]

\* tuple.__lt__: lexicographic, a proper prefix is smaller
RECURSIVE TupleLT(_, _)
TupleLT(a, b) ==
    IF b = <<>> THEN FALSE
    ELSE IF a = <<>> THEN TRUE
    ELSE IF Head(a) < Head(b) THEN TRUE
    ELSE IF Head(a) > Head(b) THEN FALSE
    ELSE TupleLT(Tail(a), Tail(b))

\* sorted(versions, key=version_key)
RECURSIVE sorted(_)
sorted(S) ==
    IF S = {} THEN <<>>
    ELSE LET m == CHOOSE x \in S :
                    \A y \in S \ {x} : ~TupleLT(version_key(y), version_key(x))
         IN <<m>> \o sorted(S \ {m})

(* ---------------------------- the catalog ------------------------------ *)

Required == <<"alpha1", "beta1", "rc1", "final">>

Has(vdata, k) == k \in DOMAIN vdata

Base == ("alpha1" :> Date(2)) @@ ("beta1" :> Date(3)) @@
        ("rc1" :> Date(4)) @@ ("final" :> Date(5))

Without(vdata, k) == [x \in (DOMAIN vdata) \ {k} |-> vdata[x]]

\* Records with every required milestone and last-bugfix present whenever
\* eol is: no support dates yet, a last-bugfix date alone, or last-bugfix
\* with an eol on or after it; each with or without a dev date.
WellFormed ==
    LET tails == {<<>>}
                 \cup {("last-bugfix" :> Date(l)) : l \in {6, MaxDate}}
                 \cup UNION {{("last-bugfix" :> Date(l)) @@ ("eol" :> Date(e)) :
                                 e \in l..MaxDate} : l \in {6, MaxDate}}
        heads == {<<>>, ("dev" :> Date(1))}
    IN {h @@ Base @@ t : h \in heads, t \in tails}

\* Records the program does not validate: a required milestone missing, eol
\* without last-bugfix, dates out of order.
Malformed ==
    {Without(Base, k) @@ ("last-bugfix" :> Date(6)) @@ ("eol" :> Date(e)) :
         k \in {"alpha1", "final"}, e \in {6, MaxDate}}
    \cup {Without(Base, "rc1")}
    \cup {Base @@ ("eol" :> Date(e)) : e \in {6, MaxDate}}
    \cup {("alpha1" :> Date(3)) @@ ("beta1" :> Date(2)) @@ ("rc1" :> Date(4))
          @@ ("final" :> Date(6)) @@ ("last-bugfix" :> Date(5))
          @@ ("eol" :> Date(MaxDate))}

VersionRecords == WellFormed \cup Malformed

Todays == {Date(6), Date(7)}

NoFile == [opened |-> FALSE, rows |-> <<>>, complete |-> FALSE]

(* ----------------------------- print_row ------------------------------- *)

Row(row_label, label, start, end) ==
    [row_label |-> row_label, label |-> label, start |-> start, end |-> end]

\* the for loop of print_row; prev is <<>> for None
RECURSIVE print_row_loop(_, _, _, _)
print_row_loop(row_label, bars, prev, f) ==
    IF bars = <<>> THEN f
    ELSE LET label == Head(bars)[1]
             start_date == Head(bars)[2]
             f2 == IF prev # <<>>
                   THEN Append(f, Row(row_label, prev[1], jsdate(prev[2]),
                                      jsdate(start_date)))
                   ELSE f
         IN print_row_loop(row_label, Tail(bars), <<label, start_date>>, f2)

\* a print_row that labels each row with the bar that ends it
RECURSIVE print_row_loop_cur(_, _, _, _)
print_row_loop_cur(row_label, bars, prev, f) ==
    IF bars = <<>> THEN f
    ELSE LET label == Head(bars)[1]
             start_date == Head(bars)[2]
             f2 == IF prev # <<>>
                   THEN Append(f, Row(row_label, label, jsdate(prev[2]),
                                      jsdate(start_date)))
                   ELSE f
         IN print_row_loop_cur(row_label, Tail(bars), <<label, start_date>>,
                               f2)

print_row_cur(row_label, bars, f) ==
    print_row_loop_cur(row_label, bars, <<>>, f)

\* a print_row that also closes the last bar with a row of its own
print_row_closing(row_label, bars, f) ==
    LET g == print_row_loop(row_label, bars, <<>>, f)
    IN IF bars = <<>> THEN g
       ELSE Append(g, Row(row_label, bars[Len(bars)][1],
                          jsdate(bars[Len(bars)][2]),
                          jsdate(bars[Len(bars)][2])))

print_row(row_label, bars, f) == print_row_loop(row_label, bars, <<>>, f)

(* ------------------------- generate_timeline --------------------------- *)

filename(e) == IF e THEN "eol.html" ELSE "index.html"

\* a skip test that keeps a version whose eol is today
Skipped_lt(e, vdata, t) == ~e /\ Has(vdata, "eol") /\ DateLT(vdata["eol"], t)

\* the skip test of the current-only pass
Skipped(e, vdata, t) == ~e /\ Has(vdata, "eol") /\ DateLE(vdata["eol"], t)

\* a subscript of vdata raises KeyError
LookupFails(vdata) ==
    \/ \E i \in 1..Len(Required) : ~Has(vdata, Required[i])
    \/ Has(vdata, "eol") /\ ~Has(vdata, "last-bugfix")

\* bars with the security bar placed before the stable bar
MilestoneBars_swapped(vdata) ==
    (IF Has(vdata, "dev") THEN <<<<"dev", vdata["dev"]>>>> ELSE <<>>)
    \o <<<<"alpha", vdata["alpha1"]>>, <<"beta", vdata["beta1"]>>,
         <<"rc", vdata["rc1"]>>>>
    \o (IF Has(vdata, "last-bugfix")
        THEN <<<<"security", vdata["last-bugfix"]>>>> ELSE <<>>)
    \o <<<<"stable", vdata["final"]>>>>
    \o (IF Has(vdata, "eol") /\ vdata["eol"] # vdata["last-bugfix"]
        THEN <<<<"eol", vdata["eol"]>>>> ELSE <<>>)

\* bars with an eol bar for every record that has eol
MilestoneBars_eol(vdata) ==
    (IF Has(vdata, "dev") THEN <<<<"dev", vdata["dev"]>>>> ELSE <<>>)
    \o <<<<"alpha", vdata["alpha1"]>>, <<"beta", vdata["beta1"]>>,
         <<"rc", vdata["rc1"]>>, <<"stable", vdata["final"]>>>>
    \o (IF Has(vdata, "last-bugfix")
        THEN <<<<"security", vdata["last-bugfix"]>>>> ELSE <<>>)
    \o (IF Has(vdata, "eol") THEN <<<<"eol", vdata["eol"]>>>> ELSE <<>>)

\* the bars built from the record's own milestones
MilestoneBars(vdata) ==
    (IF Has(vdata, "dev") THEN <<<<"dev", vdata["dev"]>>>> ELSE <<>>)
    \o <<<<"alpha", vdata["alpha1"]>>, <<"beta", vdata["beta1"]>>,
         <<"rc", vdata["rc1"]>>, <<"stable", vdata["final"]>>>>
    \o (IF Has(vdata, "last-bugfix")
        THEN <<<<"security", vdata["last-bugfix"]>>>> ELSE <<>>)
    \o (IF Has(vdata, "eol") /\ vdata["eol"] # vdata["last-bugfix"]
        THEN <<<<"eol", vdata["eol"]>>>> ELSE <<>>)

\* an update that overwrites max_eol with the latest record's date
NewMaxEol_last(m, bars) == bars[Len(bars)][2]

\* an update that keeps the earlier of the two dates
NewMaxEol_min(m, bars) ==
    IF m = None THEN bars[Len(bars)][2]
    ELSE IF DateLT(bars[Len(bars)][2], m) THEN bars[Len(bars)][2] ELSE m

\* the update of max_eol for a record with eol
NewMaxEol(m, bars) ==
    IF m = None THEN bars[Len(bars)][2] ELSE max(m, bars[Len(bars)][2])

\* the assert compiled away
AssertHolds_off(m) == TRUE

\* the assert guarding the future bar
AssertHolds(m) == m # None

\* the terminal bar of a record without eol
FutureBar(m) == <<"future", m>>

\* a main that catches the exception and goes on with the next mode
AfterAbort_catch(e) == IF e THEN "exit" ELSE "pass2"

\* where control goes when an exception leaves generate_timeline(.., e): it
\* propagates through main's for loop and ends the process
AfterAbort(e) == "exit"

\* main's for loop over (False, True) after generate_timeline(.., e) returns
AfterPass(e) == IF e THEN "exit" ELSE "pass2"

\* data is the parsed TOML: the "upstream" table and the version keys of
\* one other source table, which lists the versions upstream does not.
Init ==
    /\ \E S \in SUBSET VersionStrings : \E u \in [S -> VersionRecords] :
           data = [upstream |-> u, other |-> VersionStrings \ S]
    /\ today \in Todays
    /\ pc = "pass1"
    /\ eol = FALSE
    /\ versions = <<>>
    /\ idx = 1
    /\ max_eol = None
    /\ all_rows = <<>>
    /\ files = [n \in {"index.html", "eol.html"} |-> NoFile]
    /\ status = "ok"
    /\ row_in = <<>> /\ row_out = <<>> /\ row_pc = "idle"

\* main binds eol for this iteration and calls generate_timeline, which
\* runs up to the first loop: open the file, print the prologue, reset the
\* accumulators, collect the versions.
StartPass ==
    /\ pc \in {"pass1", "pass2"}
    /\ eol' = (pc = "pass2")
    /\ files' = [files EXCEPT ![filename(eol')] =
                    [opened |-> TRUE, rows |-> <<>>, complete |-> FALSE]]
    /\ max_eol' = None
    /\ LET vs == (DOMAIN data.upstream) \cup data.other
       IN /\ versions' = sorted(vs)
          /\ all_rows' = [v \in vs |-> <<>>]
    /\ idx' = 1
    /\ pc' = "process"
    /\ UNCHANGED <<data, today, status, rowvars>>

\* an exception raised in the first loop: the with block closes the file
\* as it stands (prologue only) and the exception leaves the function
Abort(exc) ==
    /\ status' = exc
    /\ pc' = AfterAbort(eol)
    /\ UNCHANGED <<idx, max_eol, all_rows, eol>>

\* one iteration of the first loop
ProcessVersion ==
    /\ pc = "process"
    /\ idx <= Len(versions)
    /\ LET version == versions[idx]
           Continue == /\ idx' = idx + 1
                       /\ UNCHANGED <<max_eol, all_rows, status, pc, eol>>
       IN IF version \notin DOMAIN data.upstream THEN Continue
          ELSE LET vdata == data.upstream[version] IN
            IF Skipped(eol, vdata, today) THEN Continue
            ELSE IF LookupFails(vdata) THEN Abort("KeyError")
            ELSE LET bars == MilestoneBars(vdata) IN
              IF Has(vdata, "eol")
              THEN /\ max_eol' = NewMaxEol(max_eol, bars)
                   /\ all_rows' = [all_rows EXCEPT ![version] =
                                      Append(@, <<version, bars>>)]
                   /\ idx' = idx + 1
                   /\ UNCHANGED <<status, pc, eol>>
              ELSE IF ~AssertHolds(max_eol) THEN Abort("AssertionError")
              ELSE /\ all_rows' = [all_rows EXCEPT ![version] =
                          Append(@, <<version,
                                      Append(bars, FutureBar(max_eol))>>)]
                   /\ idx' = idx + 1
                   /\ UNCHANGED <<max_eol, status, pc, eol>>
    /\ UNCHANGED <<data, today, versions, files, rowvars>>

\* print_row over all_rows[version]
RECURSIVE print_rows(_, _)
print_rows(entries, f) ==
    IF entries = <<>> THEN f
    ELSE print_rows(Tail(entries),
                    print_row(Head(entries)[1], Head(entries)[2], f))

\* the second loop
RECURSIVE emit(_, _)
emit(vs, f) ==
    IF vs = <<>> THEN f
    ELSE emit(Tail(vs), print_rows(all_rows[Head(vs)], f))

\* the second loop, the epilogue, and the return to main
EmitRows ==
    /\ pc = "process"
    /\ idx > Len(versions)
    /\ files' = [files EXCEPT ![filename(eol)] =
                    [opened |-> TRUE, rows |-> emit(versions, <<>>),
                     complete |-> TRUE]]
    /\ pc' = AfterPass(eol)
    /\ UNCHANGED <<data, today, eol, versions, idx, max_eol, all_rows,
                   status, rowvars>>

Next == StartPass \/ ProcessVersion \/ EmitRows

Spec == Init /\ [][Next]_vars

(* ----------------------- print_row on its own -------------------------- *)

BarLabels == {"stable", "eol"}

BarDates == {Date(2), Date(3), Date(MaxDate)}

BarLists == UNION {[1..n -> BarLabels \X BarDates] : n \in 0..MaxBars}

InitPrintRow ==
    /\ row_in \in BarLists
    /\ row_out = <<>>
    /\ row_pc = "call"
    /\ data = [upstream |-> <<>>, other |-> {}]
    /\ today = Date(6)
    /\ pc = "exit"
    /\ eol = FALSE
    /\ versions = <<>>
    /\ idx = 1
    /\ max_eol = None
    /\ all_rows = <<>>
    /\ files = [n \in {"index.html", "eol.html"} |-> NoFile]
    /\ status = "ok"

CallPrintRow ==
    /\ row_pc = "call"
    /\ row_out' = print_row(V39, row_in, row_out)
    /\ row_pc' = "done"
    /\ UNCHANGED <<row_in, mainvars>>

NextPrintRow == CallPrintRow

SpecPrintRow == InitPrintRow /\ [][NextPrintRow]_vars

(* ------------------------- properties: helpers ------------------------- *)

Up == data.upstream

HasRec(v) == v \in DOMAIN Up

HasEol(v) == HasRec(v) /\ "eol" \in DOMAIN Up[v]

LacksEol(v) == HasRec(v) /\ "eol" \notin DOMAIN Up[v]

\* eol on or before the invocation date
Retired(v) == HasEol(v) /\ ~DateLT(today, Up[v]["eol"])

\* the record is read by the running pass: eol-inclusive, or not retired
Kept(v) == HasRec(v) /\ (eol \/ ~Retired(v))

Complete(v) ==
    /\ {"alpha1", "beta1", "rc1", "final"} \subseteq DOMAIN Up[v]
    /\ "eol" \in DOMAIN Up[v] => "last-bugfix" \in DOMAIN Up[v]

\* the versions the first loop has gone past
Done == {versions[j] : j \in 1..(idx - 1)}

Pos(v) == CHOOSE j \in 1..Len(versions) : versions[j] = v

Before(v) == {versions[j] : j \in 1..(Pos(v) - 1)}

\* the version at which the first loop stands
AtVersion == pc = "process" /\ idx <= Len(versions)

Last(s) == s[Len(s)]

RowsOf(name, v) == SelectSeq(files[name].rows, LAMBDA r : r.row_label = v)

\* the bars stored for a version that was processed and kept
BarsOf(v) == all_rows[v][1][2]

\* a date of D that no date of D exceeds
IsLatest(d, D) == d \in D /\ \A x \in D : DateLE(x, d)

(* ------------------------------- C1 ------------------------------------ *)

\* C1: the current-only document has no row of a version whose eol is on or
\* before today (eol = today included) and, once complete, has rows of every
\* other version with a record; the complete EOL-inclusive document has rows
\* of every version with a record.
C1_SkipRule ==
    /\ \A i \in 1..Len(files["index.html"].rows) :
           ~Retired(files["index.html"].rows[i].row_label)
    /\ files["index.html"].complete =>
           \A v \in DOMAIN Up : ~Retired(v) => RowsOf("index.html", v) # <<>>
    /\ files["eol.html"].complete =>
           \A v \in DOMAIN Up : RowsOf("eol.html", v) # <<>>

C1_Witness ==
    /\ files["eol.html"].complete
    /\ files["index.html"].rows # <<>>
    /\ \E v \in DOMAIN Up :
          /\ HasEol(v) /\ Up[v]["eol"] = today
          /\ RowsOf("eol.html", v) # <<>>
          /\ RowsOf("index.html", v) = <<>>

(* ------------------------------- C2 ------------------------------------ *)

\* C2 as stated: the assertion fails only when no lower-numbered version
\* with eol exists, and max_eol is set whenever one does, in either mode.
C2_Original ==
    /\ status = "AssertionError" => ~\E w \in Done : HasEol(w)
    /\ (AtVersion /\ LacksEol(versions[idx]) /\ (\E w \in Done : HasEol(w)))
          => max_eol # None

\* C2 (amended): a version lacking eol gets a terminal future bar carrying
\* the set max_eol whenever a lower-numbered version with eol was kept by
\* the running pass (EOL-inclusive, or eol after today); the assertion
\* aborts the pass exactly at a version lacking eol with no such version
\* below it.
C2_FutureBar ==
    /\ status = "AssertionError" =>
          /\ pc = "exit" /\ LacksEol(versions[idx])
          /\ ~\E w \in Done : HasEol(w) /\ Kept(w)
    /\ (AtVersion /\ LacksEol(versions[idx])
           /\ (\E w \in Done : HasEol(w) /\ Kept(w))) => max_eol # None
    /\ \A v \in Done : LacksEol(v) =>
          /\ \E w \in Before(v) : HasEol(w) /\ Kept(w)
          /\ Len(all_rows[v]) = 1
          /\ Last(BarsOf(v))[1] = "future"
          /\ Last(BarsOf(v))[2] # None

C2_Witness ==
    /\ ~eol
    /\ \E v \in Done :
          /\ LacksEol(v)
          /\ Last(BarsOf(v))[1] = "future"
          /\ \E w \in Before(v) : Retired(w)
          /\ \E w \in Before(v) : HasEol(w) /\ ~Retired(w)

(* ------------------------------- C3 ------------------------------------ *)

\* the date a record with eol contributes to max_eol
EolOrBugfix(v) ==
    IF "last-bugfix" \in DOMAIN Up[v] /\ Up[v]["eol"] = Up[v]["last-bugfix"]
    THEN Up[v]["last-bugfix"]
    ELSE Up[v]["eol"]

\* C3 as stated: max_eol is the maximum over every preceding version with an
\* eol field, in both modes.
C3_Original ==
    LET D == {EolOrBugfix(v) : v \in {w \in Done : HasEol(w)}}
    IN IF D = {} THEN max_eol = None ELSE IsLatest(max_eol, D)

C3_Inv ==
    LET D == {EolOrBugfix(v) : v \in {w \in Done : HasEol(w) /\ Kept(w)}}
    IN IF D = {} THEN max_eol = None ELSE IsLatest(max_eol, D)

\* C3 (amended): max_eol is the maximum, over the preceding versions with an
\* eol field that the running pass kept (not skipped as retired), of the eol
\* date (the last-bugfix date when they are equal); it is unset exactly when
\* there is none, and within a pass it never decreases.
C3_MaxEol ==
    /\ []C3_Inv
    /\ [][(pc = "process" /\ max_eol # None) =>
              (max_eol' # None /\ DateLE(max_eol, max_eol'))]_vars

C3_Witness ==
    /\ ~eol
    /\ max_eol # None
    /\ \E v \in Done, w \in Done :
          /\ HasEol(v) /\ HasEol(w) /\ Kept(v) /\ Kept(w)
          /\ DateLT(Up[w]["eol"], Up[v]["eol"])
          /\ w \notin Before(v)
          /\ max_eol = Up[v]["eol"]
    /\ \E u \in Done : Retired(u)

(* ------------------------------- C4 ------------------------------------ *)

Max0(n) == IF n < 0 THEN 0 ELSE n

\* C4: print_row on N bars emits max(N-1, 0) rows; row i has the label and
\* date of bar i as phase label and start and the date of bar i+1 as end, so
\* consecutive rows are contiguous and the last bar contributes no row.
C4_Materialize ==
    row_pc = "done" =>
        /\ Len(row_out) = Max0(Len(row_in) - 1)
        /\ \A i \in 1..Len(row_out) :
              /\ row_out[i].row_label = V39
              /\ row_out[i].label = row_in[i][1]
              /\ row_out[i].start = jsdate(row_in[i][2])
              /\ row_out[i].end = jsdate(row_in[i + 1][2])
        /\ \A i \in 1..(Len(row_out) - 1) :
              row_out[i].end = row_out[i + 1].start

C4_Witness ==
    /\ row_pc = "done"
    /\ Len(row_in) = 3
    /\ Len(row_out) = 2
    /\ row_in[1][1] # row_in[2][1]
    /\ row_in[2][2] # row_in[3][2]

(* ------------------------------- C5 ------------------------------------ *)

KeyOrder ==
    <<"dev", "alpha1", "beta1", "rc1", "final", "last-bugfix", "eol">>

\* the milestone dates of the record, over the fields present, increase
StrictlyIncreasing(v) ==
    LET ks == SelectSeq(KeyOrder, LAMBDA k : k \in DOMAIN Up[v])
    IN \A i \in 1..(Len(ks) - 1) : DateLT(Up[v][ks[i]], Up[v][ks[i + 1]])

\* jsdate triples of one year/month/day order compare as the dates do
JsLT(a, b) == TupleLT(a, b)

Names == {"index.html", "eol.html"}

\* C5 as stated: every row of a version with strictly increasing milestone
\* dates has end > start, the row ending at the future bar included.
C5_Original ==
    \A n \in Names : \A v \in DOMAIN Up : StrictlyIncreasing(v) =>
        \A i \in 1..Len(RowsOf(n, v)) :
            JsLT(RowsOf(n, v)[i].start, RowsOf(n, v)[i].end)

\* C5 (amended): for every emitted version whose milestone dates are
\* strictly increasing, every row that ends at one of the record's own
\* milestones has end > start; the last row of a version lacking eol ends at
\* the future bar (max_eol) and need not.
C5_PositiveWidth ==
    \A n \in Names : \A v \in DOMAIN Up : StrictlyIncreasing(v) =>
        LET rs == RowsOf(n, v)
            k == IF LacksEol(v) THEN Len(rs) - 1 ELSE Len(rs)
        IN \A i \in 1..k : JsLT(rs[i].start, rs[i].end)

C5_Witness ==
    /\ files["eol.html"].complete
    /\ \E v \in DOMAIN Up :
          /\ StrictlyIncreasing(v) /\ LacksEol(v)
          /\ Len(RowsOf("eol.html", v)) = 6
          /\ JsLT(Last(RowsOf("eol.html", v)).end,
                  Last(RowsOf("eol.html", v)).start)
    /\ \E v \in DOMAIN Up :
          /\ StrictlyIncreasing(v) /\ HasEol(v)
          /\ Len(RowsOf("eol.html", v)) = 6

(* ------------------------------- C6 ------------------------------------ *)

\* ascending order of the integer tuples (3,9) < (3,10) < (3,11)
Ascending == <<V39, V310, V311>>

Rank(v) == CHOOSE i \in 1..Len(Ascending) : Ascending[i] = v

Vocabulary ==
    <<"dev", "alpha", "beta", "rc", "stable", "security", "eol", "future">>

LabelRank(l) == CHOOSE i \in 1..Len(Vocabulary) : Vocabulary[i] = l

\* C6: versions are processed and emitted in ascending integer-tuple order;
\* the rows of one version are consecutive and in bar order, before any row
\* of a higher version; a version without an upstream record contributes no
\* rows and no error.
C6_Ordering ==
    /\ pc # "pass1" =>
          versions = SelectSeq(Ascending,
                               LAMBDA v : v \in (DOMAIN Up) \cup data.other)
    /\ \A n \in Names : \A i \in 1..(Len(files[n].rows) - 1) :
          LET r == files[n].rows[i]
              q == files[n].rows[i + 1]
          IN \/ Rank(r.row_label) < Rank(q.row_label)
             \/ /\ r.row_label = q.row_label
                /\ LabelRank(r.label) < LabelRank(q.label)
    /\ \A n \in Names : \A i \in 1..Len(files[n].rows) :
          HasRec(files[n].rows[i].row_label)
    /\ status # "ok" => HasRec(versions[idx])

C6_Witness ==
    /\ files["eol.html"].complete
    /\ RowsOf("eol.html", V39) # <<>>
    /\ RowsOf("eol.html", V311) # <<>>
    /\ ~HasRec(V310)
    /\ V310 \in data.other

(* ------------------------------- C7 ------------------------------------ *)

\* C7 as stated: after any run either both documents are complete or
\* neither is.
C7_Original ==
    pc = "exit" =>
        (files["index.html"].complete <=> files["eol.html"].complete)

\* C7 (amended): a fatal error in the current-only pass prevents the
\* EOL-inclusive pass from starting, and eol.html is never complete unless
\* index.html is; but index.html can be complete while the EOL-inclusive
\* pass aborts, so after a run both are complete (no error), or neither, or
\* index.html alone.
C7_NoSecondPass ==
    /\ (status # "ok" /\ ~files["index.html"].complete) =>
           (pc = "exit" /\ ~files["eol.html"].opened)
    /\ files["eol.html"].opened => files["index.html"].complete
    /\ pc = "exit" =>
           (status = "ok" <=>
               (files["index.html"].complete /\ files["eol.html"].complete))

C7_Witness ==
    /\ pc = "exit"
    /\ status = "KeyError"
    /\ files["index.html"].complete
    /\ files["index.html"].rows # <<>>
    /\ files["eol.html"].opened
    /\ ~files["eol.html"].complete

(* ------------------------------- C8 ------------------------------------ *)

FutureDate(v) == Last(BarsOf(v))[2]

\* C8 as stated: every version lacking eol gets the same future date, the
\* latest eol date of the whole dataset.
C8_Original ==
    \A v \in Done : LacksEol(v) =>
        /\ IsLatest(FutureDate(v), {Up[w]["eol"] : w \in {x \in DOMAIN Up : HasEol(x)}})
        /\ \A u \in Done : LacksEol(u) => FutureDate(u) = FutureDate(v)

\* C8 (amended): a version lacking eol gets as its future date the latest
\* eol date among the lower-numbered versions with an eol field that the
\* running pass kept; higher-numbered versions do not count, so two such
\* versions can get different dates.
C8_RunningEdge ==
    \A v \in Done : LacksEol(v) =>
        IsLatest(FutureDate(v),
                 {Up[w]["eol"] : w \in {x \in Before(v) : HasEol(x) /\ Kept(x)}})

C8_Witness ==
    \E v \in Done :
        /\ LacksEol(v)
        /\ \E w \in Before(v), x \in Before(v) :
              /\ HasEol(w) /\ HasEol(x) /\ Kept(w) /\ Kept(x)
              /\ w \in Before(x)
              /\ DateLT(Up[x]["eol"], Up[w]["eol"])
              /\ FutureDate(v) = Up[w]["eol"]

(* ------------------------------- C9 ------------------------------------ *)

\* the milestone a bar label takes its date from
KeyOf(l) ==
    CASE l = "dev" -> "dev" [] l = "alpha" -> "alpha1" [] l = "beta" -> "beta1"
      [] l = "rc" -> "rc1" [] l = "stable" -> "final"
      [] l = "security" -> "last-bugfix" [] l = "eol" -> "eol"

BarDue(v, l) ==
    CASE l = "dev" -> "dev" \in DOMAIN Up[v]
      [] l \in {"alpha", "beta", "rc", "stable"} -> TRUE
      [] l = "security" -> "last-bugfix" \in DOMAIN Up[v]
      [] l = "eol" -> HasEol(v) /\ Up[v]["eol"] # Up[v]["last-bugfix"]
      [] l = "future" -> ~HasEol(v)

\* C9: a version that is not skipped gets exactly the bars dev?, alpha,
\* beta, rc, stable, security?, eol?, future? in this order, each from its
\* milestone, with eol iff eol is present and differs from last-bugfix and
\* future iff eol is absent; a record missing a required milestone, or with
\* eol but no last-bugfix, aborts the pass with a lookup failure.
C9_BarSequence ==
    /\ \A v \in Done : Kept(v) =>
          /\ Complete(v)
          /\ Len(all_rows[v]) = 1 /\ all_rows[v][1][1] = v
          /\ LET due == SelectSeq(Vocabulary, LAMBDA l : BarDue(v, l))
             IN /\ Len(BarsOf(v)) = Len(due)
                /\ \A i \in 1..Len(due) :
                      /\ BarsOf(v)[i][1] = due[i]
                      /\ due[i] # "future" =>
                            BarsOf(v)[i][2] = Up[v][KeyOf(due[i])]
    /\ \A v \in Done : ~Kept(v) => all_rows[v] = <<>>
    /\ status = "KeyError" =>
          /\ pc = "exit" /\ Kept(versions[idx]) /\ ~Complete(versions[idx])
          /\ all_rows[versions[idx]] = <<>>
    /\ status = "AssertionError" => Complete(versions[idx])

C9_Witness ==
    /\ status = "KeyError"
    /\ HasEol(versions[idx]) /\ "last-bugfix" \notin DOMAIN Up[versions[idx]]
    /\ \E v \in Done : Kept(v) /\ Len(BarsOf(v)) = 7
    /\ \E v \in Done : Kept(v) /\ HasEol(v)
                        /\ Up[v]["eol"] = Up[v]["last-bugfix"]

(* ------------------------------- C10 ----------------------------------- *)

RowLabels(rs) == {rs[i].label : i \in 1..Len(rs)}

\* C10: no emitted row is labelled eol or future; a version with
\* eol = last-bugfix emits no security row, its last row being stable
\* ending at last-bugfix; every emitted version has at least three rows,
\* alpha, beta and rc among them.
C10_TerminalLabels ==
    \A n \in Names :
        /\ RowLabels(files[n].rows) \cap {"eol", "future"} = {}
        /\ \A v \in DOMAIN Up : RowsOf(n, v) # <<>> =>
              /\ Len(RowsOf(n, v)) >= 3
              /\ {"alpha", "beta", "rc"} \subseteq RowLabels(RowsOf(n, v))
              /\ (HasEol(v) /\ Up[v]["eol"] = Up[v]["last-bugfix"]) =>
                    /\ "security" \notin RowLabels(RowsOf(n, v))
                    /\ Last(RowsOf(n, v)).label = "stable"
                    /\ Last(RowsOf(n, v)).end = jsdate(Up[v]["last-bugfix"])

C10_Witness ==
    /\ files["eol.html"].complete
    /\ \E v \in DOMAIN Up :
          /\ HasEol(v) /\ Up[v]["eol"] = Up[v]["last-bugfix"]
          /\ Last(RowsOf("eol.html", v)).label = "stable"
    /\ \E v \in DOMAIN Up :
          /\ HasEol(v) /\ Up[v]["eol"] # Up[v]["last-bugfix"]
          /\ Last(RowsOf("eol.html", v)).label = "security"
    /\ \E v \in DOMAIN Up :
          LacksEol(v) /\ RowsOf("eol.html", v) # <<>>


====
